---- MODULE Spec2Model ----
(***************************************************************************)
(* Container-backed execution environment: the lifecycle of                *)
(* DockerEnvironment / ExistingDockerEnvironment (src/app/docker_env.py,   *)
(* src/app/container.py) against a recording model of the Docker daemon,   *)
(* and the port-request translation convert_port_list_to_dict.             *)
(***************************************************************************)
EXTENDS Naturals, Integers, Sequences, FiniteSets, TLC

\* ---------------------------------------------------------------- bounds
MaxContainers == 2
MaxEnvs == 2
MaxCleanups == 1
MaxPorts == 3

\* cleanup(): self.container.stop(timeout=10)
StopTimeout == 10

Ids == 1..MaxContainers
Handles == 1..MaxEnvs

VARIABLES
    status,      \* daemon: container id -> "absent" | "running" | "exited"
    nextId,      \* daemon: next identity containers.run hands out
    env,         \* handle -> the environment object's fields and liveness
    nextHandle,  \* next environment object to be constructed
    released,    \* handle -> whether cleanup() has been invoked on the object
    stopCount,   \* handle -> stop requests the daemon received from that object
    issued,      \* requests the daemon received during the last operation
    last,        \* what the last operation gave its caller
    port_lst,    \* argument of convert_port_list_to_dict
    dic,         \* its result
    pdone,       \* whether it has been applied
    mount,       \* argument of convert_mount_to_docker_mount
    mres,        \* its result
    mdone,       \* whether it has been applied
    clock,       \* int(time.time()) on the host
    host,        \* files in the host working directory: name -> content
    cfs,         \* the sandbox file system: path -> content
    proc,        \* per caller: the write_file call it is in
    flast,       \* outcome of the latest read_file/view_directory/exists/is_directory
    given,       \* per path: the content of the latest write_file that returned
    calls,       \* write_file calls begun so far
    disk,        \* the downloader's output directory <base>/<container name>
    cli,         \* outcome of the latest call of the command-line tool
    dl,          \* a download_files call: its arguments, the stream, what it left
    inflight     \* per environment: whether an exec_run of it has not returned yet

vars == <<status, nextId, env, nextHandle, released, stopCount, issued, last,
          port_lst, dic, pdone, mount, mres, mdone,
          clock, host, cfs, proc, flast, given, calls, disk, cli,
          dl, inflight>>
lifeVars == <<status, nextId, env, nextHandle, released, stopCount, issued, last>>
portVars == <<port_lst, dic, pdone>>
mountVars == <<mount, mres, mdone>>
\* what the lifecycle operations leave alone
fileVars == <<clock, host, cfs, proc, flast, given, calls>>
cliVars == <<disk, cli>>
auxVars == <<dl, inflight>>
restVars == <<portVars, mountVars, fileVars, cliVars, auxVars>>

\* ------------------------------------------------------------ daemon side
Req(op, id, by, timeout) == [op |-> op, id |-> id, by |-> by, timeout |-> timeout]

Result(op, h, id, ret, exc, msg) ==
    [op |-> op, h |-> h, id |-> id, ret |-> ret, exc |-> exc, msg |-> msg]

\* client.containers.list(all=True): every container the daemon still holds
ListAll == {i \in Ids : status[i] # "absent"}

\* container.exec_run: needs a reachable daemon and a running container
ExecOutcome(id, up) ==
    IF ~up THEN "DockerException"
    ELSE IF status[id] = "absent" THEN "NotFound"
    ELSE IF status[id] # "running" THEN "APIError"
    ELSE ""

\* container.put_archive / get_archive: work on any container the daemon holds
ArchiveOutcome(id, up) ==
    IF ~up THEN "DockerException"
    ELSE IF status[id] = "absent" THEN "NotFound"
    ELSE ""

\* container.stop: an already stopped container is stopped without error
StopOutcome(id, up) ==
    IF ~up THEN "DockerException"
    ELSE IF status[id] = "absent" THEN "NotFound"
    ELSE ""

StatusAfterStopAll(id, up) ==
    IF up THEN [i \in Ids |-> IF status[i] = "running" THEN "exited" ELSE status[i]]
    ELSE status
StatusAfterStop(id, up) ==
    IF up /\ status[id] = "running" THEN [status EXCEPT ![id] = "exited"] ELSE status

\* ------------------------------------------------------ DockerEnvironment
NoEnv == [st |-> "unused", owner |-> FALSE, container |-> 0, container_id |-> 0]

\* the identity the runtime returns for the container it just created
FreshIdReused == IF nextId > 1 THEN nextId - 1 ELSE nextId
FreshId == nextId

\* client.containers.run(image, name=container_name, detach=True, tty=True, ...)
\* with container_name made from a uuid4 drawn in this call
RunReq(id, h) ==
    [op |-> "run", id |-> id, by |-> h, timeout |-> 0,
     detach |-> TRUE, tty |-> TRUE, name |-> "uuid4"]

\* the requests _start_container sends up to the call that raises
SpawnIssuedReloadFirst(fault, id, h) ==
    CASE fault = "from_env" -> <<>>
      [] fault = "run" -> <<Req("reload", 0, h, 0), RunReq(0, h)>>
      [] OTHER -> <<Req("reload", id, h, 0), RunReq(id, h)>>
SpawnIssued(fault, id, h) ==
    CASE fault = "from_env" -> <<>>
      [] fault = "run" -> <<RunReq(0, h)>>
      [] OTHER -> <<RunReq(id, h), Req("reload", id, h, 0)>>

\* DockerEnvironment.__init__ / _start_container.  fault names the call that
\* raises: docker.from_env, containers.run, container.reload, or none.
Spawn(fault) ==
    /\ nextHandle <= MaxEnvs
    /\ nextId <= MaxContainers
    /\ LET h == nextHandle
           created == fault \in {"none", "reload"}
           id == FreshId
       IN  /\ env' = [env EXCEPT ![h] =
                        [st |-> IF fault = "none" THEN "held" ELSE "garbage",
                         owner |-> TRUE,
                         container |-> IF created THEN id ELSE 0,
                         container_id |-> IF created THEN id ELSE 0]]
           /\ status' = IF created THEN [status EXCEPT ![id] = "running"] ELSE status
           /\ nextId' = IF created THEN nextId + 1 ELSE nextId
           /\ issued' = SpawnIssued(fault, id, h)
           /\ last' = Result("spawn", h, IF created THEN id ELSE 0,
                             IF fault = "none" THEN "env" ELSE "",
                             IF fault = "none" THEN "" ELSE "DockerException", "")
    /\ nextHandle' = nextHandle + 1
    /\ UNCHANGED <<released, stopCount, restVars>>

\* which cleanup() runs: DockerEnvironment's stops the container,
\* ExistingDockerEnvironment's override only prints
CleanupStopsAlways(e) == TRUE
CleanupStops(e) == e.owner

\* the exception cleanup() ends with ("" when it returns)
CleanupExc(e, up) ==
    IF ~CleanupStops(e) THEN ""
    ELSE IF e.container = 0 THEN "AttributeError"
    ELSE StopOutcome(e.container, up)

CleanupIssuedTwice(h, e) ==
    IF CleanupStops(e) /\ e.container # 0
    THEN <<Req("stop", e.container, h, StopTimeout), Req("stop", e.container, h, StopTimeout)>>
    ELSE <<>>
CleanupIssued(h, e) ==
    IF CleanupStops(e) /\ e.container # 0
    THEN <<Req("stop", e.container, h, StopTimeout)>>
    ELSE <<>>

\* the effect of one run of cleanup() on the daemon and on the record of calls
CleanupEffect(h, up) ==
    LET e == env[h]
        stops == CleanupStops(e) /\ e.container # 0
    IN  /\ issued' = CleanupIssued(h, e)
        /\ stopCount' = [stopCount EXCEPT ![h] = @ + (IF stops THEN 1 ELSE 0)]
        /\ status' = IF stops THEN StatusAfterStop(e.container, up) ELSE status
        /\ released' = [released EXCEPT ![h] = TRUE]

\* an explicit cleanup() by the holder of the object
Cleanup(h, up) ==
    /\ env[h].st = "held"
    /\ stopCount[h] < MaxCleanups
    /\ CleanupEffect(h, up)
    /\ last' = Result("cleanup", h, env[h].container,
                      IF CleanupExc(env[h], up) = "" THEN "ok" ELSE "",
                      CleanupExc(env[h], up), "")
    /\ UNCHANGED <<env, nextId, nextHandle, restVars>>

\* __del__: the object is discarded; an exception of cleanup() is not propagated
Discard(h, up) ==
    /\ env[h].st \in {"held", "garbage"}
    /\ CleanupEffect(h, up)
    /\ env' = [env EXCEPT ![h].st = "discarded"]
    /\ last' = Result("del", h, env[h].container, "ok", "", CleanupExc(env[h], up))
    /\ UNCHANGED <<nextId, nextHandle, restVars>>

\* ------------------------------------------- connect_to_existing_container
\* the test on the status re-read by container.reload()
AttachAdmitsAny(s) == TRUE
AttachAdmits(s) == s = "running"

\* The branch connect_to_existing_container ends in, named by what it prints.
\* fault names the call that raises a DockerException: docker.from_env,
\* containers.get, the first reload, the reload in ExistingDockerEnvironment.
AttachMsg(id, fault) ==
    IF fault \in {"from_env", "get"} THEN "docker_error"
    ELSE IF status[id] = "absent" THEN "not_found"
    ELSE IF fault = "reload" THEN "docker_error"
    ELSE IF ~AttachAdmits(status[id]) THEN "not_running"
    ELSE IF fault = "reload2" THEN "docker_error"
    ELSE "connected"

\* what the caller receives: the new object, or None on every other branch
AttachReturn(msg) == IF msg = "connected" THEN "env" ELSE "None"

\* the requests sent to the daemon up to the branch taken
AttachIssuedRetry(id, fault, msg) ==
    LET get == <<Req("get", id, 0, 0)>>
        rel == <<Req("reload", id, 0, 0)>>
    IN  CASE fault = "from_env" -> <<>>
          [] fault = "get" \/ msg = "not_found" -> get \o get
          [] fault = "reload" \/ msg = "not_running" -> get \o rel
          [] OTHER -> get \o rel \o rel
AttachIssued(id, fault, msg) ==
    LET get == <<Req("get", id, 0, 0)>>
        rel == <<Req("reload", id, 0, 0)>>
    IN  CASE fault = "from_env" -> <<>>
          [] fault = "get" \/ msg = "not_found" -> get
          [] fault = "reload" \/ msg = "not_running" -> get \o rel
          [] OTHER -> get \o rel \o rel

\* whether ExistingDockerEnvironment.__init__ was entered (an object exists)
AttachConstructs(id, fault) ==
    /\ fault \in {"none", "reload2"}
    /\ status[id] # "absent"
    /\ AttachAdmits(status[id])

Attach(id, fault) ==
    LET msg == AttachMsg(id, fault)
        h == nextHandle
    IN  /\ AttachConstructs(id, fault) => nextHandle <= MaxEnvs
        /\ IF AttachConstructs(id, fault)
           THEN /\ env' = [env EXCEPT ![h] =
                             [st |-> IF fault = "none" THEN "held" ELSE "garbage",
                              owner |-> FALSE, container |-> id, container_id |-> id]]
                /\ nextHandle' = nextHandle + 1
           ELSE UNCHANGED <<env, nextHandle>>
        /\ issued' = AttachIssued(id, fault, msg)
        /\ last' = Result("attach", IF msg = "connected" THEN h ELSE 0, id,
                          AttachReturn(msg), "", msg)
        /\ UNCHANGED <<status, nextId, released, stopCount, restVars>>

\* ------------------------------------------------ execute and file transfer
\* one exec_run on the object's container; ret is what a normal return gives
ExecOp(op, h, up, ret) ==
    /\ env[h].st = "held"
    /\ LET id == env[h].container
           exc == ExecOutcome(id, up)
       IN  /\ issued' = <<Req("exec", id, h, 0)>>
           /\ last' = Result(op, h, id, IF exc = "" THEN ret ELSE "", exc, "")
    /\ UNCHANGED <<status, nextId, env, nextHandle, released, stopCount, restVars>>

\* res is what the daemon does with the exec: "down" (unreachable), or the
\* exit code of the command when it runs
Runs == {"down", "rc0", "rc1"}
RcText(res) == res
BoolText(res) == IF res = "rc0" THEN "true" ELSE "false"

Execute(h, res) == ExecOp("execute", h, res # "down", RcText(res))
ReadFile(h, res) == ExecOp("read_file", h, res # "down", "output")
ViewDirectory(h, res) == ExecOp("view_directory", h, res # "down", "output")
Exists(h, res) == ExecOp("exists", h, res # "down", BoolText(res))
IsDirectory(h, res) == ExecOp("is_directory", h, res # "down", BoolText(res))

CopyFileToContainer(h, up) ==
    /\ env[h].st = "held"
    /\ LET id == env[h].container
           exc == ArchiveOutcome(id, up)
       IN  /\ issued' = <<Req("put_archive", id, h, 0)>>
           /\ last' = Result("copy_file_to_container", h, id,
                             IF exc = "" THEN "rc0" ELSE "", exc, "")
    /\ UNCHANGED <<status, nextId, env, nextHandle, released, stopCount, restVars>>

\* download_files: execute("pwd"), then get_archive(pwd)
DownloadFiles(h, fault) ==
    /\ env[h].st = "held"
    /\ LET id == env[h].container
           e1 == ExecOutcome(id, fault # "exec")
           e2 == ArchiveOutcome(id, fault # "archive")
           exc == IF e1 # "" THEN e1 ELSE e2
       IN  /\ issued' = IF e1 # "" THEN <<Req("exec", id, h, 0)>>
                        ELSE <<Req("exec", id, h, 0), Req("get_archive", id, h, 0)>>
           /\ last' = Result("download_files", h, id,
                             IF exc = "" THEN "archive" ELSE "", exc, "")
    /\ UNCHANGED <<status, nextId, env, nextHandle, released, stopCount, restVars>>

\* write_file: copy_file_to_container(tar, "/tmp"), then execute("mv ..."),
\* then return the result of the copy
WriteFile(h, fault) ==
    /\ env[h].st = "held"
    /\ LET id == env[h].container
           e1 == ArchiveOutcome(id, fault # "archive")
           e2 == ExecOutcome(id, fault # "exec")
           exc == IF e1 # "" THEN e1 ELSE e2
       IN  /\ issued' = IF e1 # "" THEN <<Req("put_archive", id, h, 0)>>
                        ELSE <<Req("put_archive", id, h, 0), Req("exec", id, h, 0)>>
           /\ last' = Result("write_file", h, id,
                             IF exc = "" THEN "rc0" ELSE "", exc, "")
    /\ UNCHANGED <<status, nextId, env, nextHandle, released, stopCount, restVars>>

EnvOps == {"execute", "read_file", "view_directory", "exists", "is_directory",
           "copy_file_to_container", "download_files", "write_file"}

\* ------------------------------------------------- dashboard (out of band)
\* stop_container / start_container / remove_container: look the container up,
\* act on it, and report any exception in the page instead of raising
DashOp(op, id, after) ==
    LET found == status[id] # "absent"
    IN  /\ status' = IF found THEN [status EXCEPT ![id] = after] ELSE status
        /\ issued' = IF found THEN <<Req("get", id, 0, 0), Req(op, id, 0, 0)>>
                     ELSE <<Req("get", id, 0, 0)>>
        /\ last' = Result("dash_" \o op, 0, id, "ok", "",
                          IF found THEN "success" ELSE "error")
        /\ UNCHANGED <<nextId, env, nextHandle, released, stopCount, restVars>>

DashStop(id) == DashOp("stop", id, "exited")
DashStart(id) == DashOp("start", id, "running")
DashRemove(id) == DashOp("remove", id, "absent")

NoResult == Result("init", 0, 0, "", "", "")

LifeInit ==
    /\ status = [i \in Ids |-> "absent"]
    /\ nextId = 1
    /\ env = [h \in Handles |-> NoEnv]
    /\ nextHandle = 1
    /\ released = [h \in Handles |-> FALSE]
    /\ stopCount = [h \in Handles |-> 0]
    /\ issued = <<>>
    /\ last = NoResult

\* the translations before they are called
PortIdle ==
    /\ port_lst = <<>>
    /\ dic = [exc |-> "", dic |-> <<>>]
    /\ pdone = FALSE

MountIdle ==
    /\ mount = <<>>
    /\ mres = <<>>
    /\ mdone = FALSE

\* no file operation under way
FileIdle ==
    /\ clock = 0
    /\ host = <<>>
    /\ cfs = <<>>
    /\ proc = <<>>
    /\ flast = <<>>
    /\ given = <<>>
    /\ calls = 0

\* the command-line tool not run, no download_files call, no exec in flight
CliIdle ==
    /\ disk = <<>>
    /\ cli = <<>>

StreamIdle == dl = <<>>
FlightIdle == inflight = [h \in Handles |-> FALSE]
AuxIdle == StreamIdle /\ FlightIdle

\* ------------------------------------------------ convert_port_list_to_dict
\* Python values: None, int, str (a sequence of characters), the tuple
\* (host, port) and list
PyNone == [ty |-> "none", n |-> 0, s |-> <<>>, items |-> <<>>]
PyInt(n) == [ty |-> "int", n |-> n, s |-> <<>>, items |-> <<>>]
PyStr(s) == [ty |-> "str", n |-> 0, s |-> s, items |-> <<>>]
PyTuple(a, n) == [ty |-> "tuple", n |-> n, s |-> a, items |-> <<>>]
PyList(items) == [ty |-> "list", n |-> 0, s |-> <<>>, items |-> items]

Digits == {"0", "1", "3", "4", "8", "9"}
DigitVal(c) ==
    CASE c = "0" -> 0 [] c = "1" -> 1 [] c = "3" -> 3
      [] c = "4" -> 4 [] c = "8" -> 8 [] c = "9" -> 9

\* str.isnumeric(): non-empty and every character numeric
IsNumeric(s) == Len(s) > 0 /\ \A i \in 1..Len(s) : s[i] \in Digits

\* int(s) of a string of decimal digits
RECURSIVE IntOf(_)
IntOf(s) ==
    IF Len(s) = 0 THEN 0
    ELSE 10 * IntOf(SubSeq(s, 1, Len(s) - 1)) + DigitVal(s[Len(s)])

\* ":" in u, and u.split(":", 1)
HasColon(s) == \E i \in 1..Len(s) : s[i] = ":"
FirstColon(s) == CHOOSE i \in 1..Len(s) : s[i] = ":" /\ \A j \in 1..(i - 1) : s[j] # ":"
BeforeColon(s) == SubSeq(s, 1, FirstColon(s) - 1)
AfterColon(s) == SubSeq(s, FirstColon(s) + 1, Len(s))

\* whether resolving the host spec raises (int(b) on a non-numeric port part)
ResolveRaises(u) == u.ty = "str" /\ HasColon(u.s) /\ ~IsNumeric(AfterColon(u.s))

\* the value x computed for one item["local"]
Resolve(u) ==
    IF u.ty = "none" THEN PyNone
    ELSE IF HasColon(u.s) THEN PyTuple(BeforeColon(u.s), IntOf(AfterColon(u.s)))
    ELSE IF IsNumeric(u.s) THEN PyInt(IntOf(u.s))
    ELSE PyNone

\* dic is kept as its entries in insertion order
HasKey(d, k) == \E i \in 1..Len(d) : d[i].k = k
KeyIndex(d, k) == CHOOSE i \in 1..Len(d) : d[i].k = k

\* "d not in dic"
KeyMissingOrNone(d, k) == ~HasKey(d, k) \/ d[KeyIndex(d, k)].v = PyNone
KeyMissing(d, k) == ~HasKey(d, k)

\* one pass of the loop body, for an item whose host spec resolves
PortStep(d, item) ==
    LET k == item.docker
        x == Resolve(item.local)
    IN  IF KeyMissing(d, k) THEN Append(d, [k |-> k, v |-> x])
        ELSE LET i == KeyIndex(d, k)
             IN  IF d[i].v.ty = "list"
                 THEN [d EXCEPT ![i].v = PyList(Append(@.items, x))]
                 ELSE [d EXCEPT ![i].v = PyList(<<@, x>>)]

\* the whole loop: the mapping returned, or the exception that ends the call
RECURSIVE PortLoop(_, _, _)
PortLoop(d, lst, i) ==
    IF i > Len(lst) THEN [exc |-> "", dic |-> d]
    ELSE IF ResolveRaises(lst[i].local) THEN [exc |-> "ValueError", dic |-> <<>>]
    ELSE PortLoop(PortStep(d, lst[i]), lst, i + 1)

convert_port_list_to_dict(lst) == PortLoop(<<>>, lst, 1)

\* inputs: container ports and host specs as the form hands them over
S80 == <<"8", "0">>
S443 == <<"4", "4", "3">>
S8080 == <<"8", "0", "8", "0">>
S8081 == <<"8", "0", "8", "1">>
DockerPorts == {PyStr(S80), PyStr(S443)}
HostSpecs == {PyNone, PyStr(S8080), PyStr(S8081), PyStr(<<"h", ":", "9", "0">>),
              PyStr(<<"h", ":", "x">>), PyStr(<<"a", "b", "c">>)}
PortItems == [docker : DockerPorts, local : HostSpecs]
PortLists == UNION {[1..k -> PortItems] : k \in 0..MaxPorts}

Convert ==
    /\ ~pdone
    /\ dic' = convert_port_list_to_dict(port_lst)
    /\ pdone' = TRUE
    /\ UNCHANGED <<port_lst, lifeVars, mountVars, fileVars, cliVars, auxVars>>

PortInit ==
    /\ LifeInit
    /\ MountIdle
    /\ FileIdle
    /\ CliIdle
    /\ AuxIdle
    /\ port_lst \in PortLists
    /\ dic = [exc |-> "", dic |-> <<>>]
    /\ pdone = FALSE

PortNext == Convert

PortSpec == PortInit /\ [][PortNext]_vars

\* -------------------------------------------- convert_mount_to_docker_mount
\* a key the request dict does not hold, and Python's None
Missing == "<missing>"
PyNull == "<None>"

\* mount.get(key, default)
Get(m, key, default) == IF m[key] = Missing THEN default ELSE m[key]

\* bdx: "None" from the form becomes None
NormPropKeepsText(bdx) == bdx
NormProp(bdx) == IF bdx = "None" THEN PyNull ELSE bdx

\* docker.types.Mount(...): arguments not passed keep the constructor defaults
MountOf(source, target, type, read_only, consistency, propagation, no_copy, labels) ==
    [source |-> source, target |-> target, type |-> type, read_only |-> read_only,
     consistency |-> consistency, propagation |-> propagation,
     no_copy |-> no_copy, labels |-> labels]

NoMount == MountOf("", "", "", "", "", "", "", "")

\* mount["local_path"] / mount["container_path"] of an absent key raise KeyError
MountRaises(m) == m["local_path"] = Missing \/ m["container_path"] = Missing

convert_mount_to_docker_mount(m) ==
    LET tx == Get(m, "type", "bind")
        ro == Get(m, "read_only", "False")
        co == Get(m, "consistency", "default")
    IN  IF MountRaises(m) THEN [exc |-> "KeyError", d |-> NoMount]
        ELSE IF tx = "bind"
        THEN [exc |-> "",
              d |-> MountOf(m["local_path"], m["container_path"], "bind", ro, co,
                            NormProp(Get(m, "bind_propagation", PyNull)),
                            "False", PyNull)]
        ELSE IF tx = "volume"
        THEN [exc |-> "",
              d |-> MountOf(m["local_path"], m["container_path"], "volume", ro, co,
                            PyNull, Get(m, "no_copy", "False"), Get(m, "labels", PyNull))]
        ELSE [exc |-> "",
              d |-> MountOf(m["local_path"], m["container_path"], Get(m, "type", "tmpfs"),
                            ro, co, PyNull, "False", PyNull)]

MountRequests ==
    [type : {Missing, "bind", "volume", "tmpfs"},
     bind_propagation : {Missing, "None", "rshared"},
     local_path : {Missing, "/host/data"},
     container_path : {Missing, "/data"},
     read_only : {Missing, "True"},
     consistency : {Missing},
     no_copy : {Missing, "True"},
     labels : {Missing, "team"}]

ConvertMount ==
    /\ ~mdone
    /\ mres' = convert_mount_to_docker_mount(mount)
    /\ mdone' = TRUE
    /\ UNCHANGED <<mount, lifeVars, portVars, fileVars, cliVars, auxVars>>

MountInit ==
    /\ LifeInit
    /\ PortIdle
    /\ FileIdle
    /\ CliIdle
    /\ AuxIdle
    /\ mount \in MountRequests
    /\ mres = [exc |-> "", d |-> NoMount]
    /\ mdone = FALSE

MountNext == ConvertMount

MountSpec == MountInit /\ [][MountNext]_vars

\* ------------------------------------------- write_file and the file queries
MaxClock == 1
MaxCallers == 2
MaxWrites == 2
Times == 0..MaxClock
Callers == 1..MaxCallers
Contents == {"a", "b"}

\* a name that holds no file, and a directory
Absent == "<absent>"
Dir == "<dir>"

\* tmp_file = f"tmpfile-{t}.tmp"
TmpName(t) == "tmpfile-" \o ToString(t) \o ".tmp"
\* the archive create_tar_from_filename leaves next to the file it packs
TarName(t) == TmpName(t) \o ".tar"
\* where put_archive(..., "/tmp") extracts the single entry
Staged(t) == "/tmp/" \o TmpName(t)

\* the paths of the sandbox the model follows
OwnPath(c) == "/work/out" \o ToString(c) \o ".txt"
ImageDirs == {"/tmp", "/work"}
WriteTargets == {OwnPath(1), "/nodir/out.txt", "/work"}
QueryPaths == WriteTargets \cup ImageDirs \cup {"/nodir"}
FsPaths ==
    ImageDirs \cup {"/nodir", "/nodir/out.txt"} \cup {OwnPath(c) : c \in Callers}
    \cup {Staged(t) : t \in Times} \cup {"/work/" \o TmpName(t) : t \in Times}

Parent(p) ==
    IF p \in {OwnPath(c) : c \in Callers} THEN "/work"
    ELSE IF p = "/nodir/out.txt" THEN "/nodir"
    ELSE "/"
ParentIsDir(fs, p) == Parent(p) = "/" \/ fs[Parent(p)] = Dir

\* mv src dst inside the sandbox: into dst when dst is a directory, onto dst
\* when its parent exists, and a non-zero exit otherwise
MvDest(fs, name, dst) == IF fs[dst] = Dir THEN dst \o "/" \o name ELSE dst
MvRc(fs, src, dst) ==
    IF fs[src] # Absent /\ (fs[dst] = Dir \/ ParentIsDir(fs, dst)) THEN 0 ELSE 1
MvFs(fs, src, name, dst) ==
    IF MvRc(fs, src, dst) = 0
    THEN [fs EXCEPT ![MvDest(fs, name, dst)] = fs[src], ![src] = Absent]
    ELSE fs

\* the commands behind the queries: exit code and output
Cat(fs, p) ==
    IF fs[p] = Absent THEN [rc |-> 1, out |-> "cat: No such file or directory"]
    ELSE IF fs[p] = Dir THEN [rc |-> 1, out |-> "cat: Is a directory"]
    ELSE [rc |-> 0, out |-> fs[p]]
Ls(fs, p) ==
    IF fs[p] = Absent THEN [rc |-> 2, out |-> "ls: cannot access: No such file or directory"]
    ELSE [rc |-> 0, out |-> "listing of " \o p]
TestE(fs, p) == IF fs[p] # Absent THEN 0 ELSE 1
TestD(fs, p) == IF fs[p] = Dir THEN 0 ELSE 1

Res0 == [returncode |-> 0, output |-> ""]
NoRes == [returncode |-> -1, output |-> ""]
IdleProc == [pc |-> "idle", path |-> "", content |-> "", t |-> 0,
             res |-> NoRes, exc |-> "", put |-> "", mv |-> -1]
Resting(c) == proc[c].pc \in {"idle", "done", "raised"}
Raise(c, e) == [proc EXCEPT ![c].pc = "raised", ![c].exc = e]

\* what the latest query since the last write_file call answered
PyBool(b) == IF b THEN "true" ELSE "false"
Answer(op, p, rc, ret) == [op |-> op, path |-> p, rc |-> rc, ret |-> ret, exc |-> ""]
NoAnswer == Answer("init", "", 0, "")

\* write_file, l.180-183: take the time, name the temporary file, write it
Call(c, p, x) ==
    /\ Resting(c)
    /\ calls < MaxWrites
    /\ calls' = calls + 1
    /\ proc' = [proc EXCEPT ![c] = [IdleProc EXCEPT !.pc = "tar", !.path = p,
                                                     !.content = x, !.t = clock]]
    /\ host' = [host EXCEPT ![TmpName(clock)] = x]
    /\ flast' = NoAnswer
    /\ UNCHANGED <<clock, cfs, given, lifeVars, portVars, mountVars, cliVars, auxVars>>

\* l.186: pack the temporary file as the single entry of an archive
CreateTar(c, ok) ==
    /\ proc[c].pc = "tar"
    /\ LET t == proc[c].t
       IN  IF host[TmpName(t)] = Absent
           THEN proc' = Raise(c, "FileNotFoundError") /\ host' = host
           ELSE IF ~ok
           THEN proc' = Raise(c, "TarError") /\ host' = host
           ELSE /\ proc' = [proc EXCEPT ![c].pc = "rmtmp"]
                /\ host' = [host EXCEPT ![TarName(t)] = host[TmpName(t)]]
    /\ UNCHANGED <<clock, cfs, flast, given, calls, lifeVars, portVars, mountVars, cliVars, auxVars>>

\* l.188: os.remove(tmp_file)
RemoveTmp(c) ==
    /\ proc[c].pc = "rmtmp"
    /\ LET t == proc[c].t
       IN  IF host[TmpName(t)] = Absent
           THEN proc' = Raise(c, "FileNotFoundError") /\ host' = host
           ELSE /\ proc' = [proc EXCEPT ![c].pc = "put"]
                /\ host' = [host EXCEPT ![TmpName(t)] = Absent]
    /\ UNCHANGED <<clock, cfs, flast, given, calls, lifeVars, portVars, mountVars, cliVars, auxVars>>

\* l.195 and copy_file_to_container: open the archive, put_archive it to /tmp
\* (the runtime extracts the entry), return {"returncode": 0, "output": ""}
\* whatever put_archive returned
PutArchive(c, o) ==
    /\ proc[c].pc = "put"
    /\ LET t == proc[c].t
       IN  IF host[TarName(t)] = Absent
           THEN proc' = Raise(c, "FileNotFoundError") /\ cfs' = cfs
           ELSE IF o = "raise"
           THEN proc' = Raise(c, "APIError") /\ cfs' = cfs
           ELSE /\ proc' = [proc EXCEPT ![c].pc = "rmtar", ![c].res = Res0, ![c].put = o]
                /\ cfs' = IF o = "ok" THEN [cfs EXCEPT ![Staged(t)] = host[TarName(t)]]
                          ELSE cfs
    /\ UNCHANGED <<clock, host, flast, given, calls, lifeVars, portVars, mountVars, cliVars, auxVars>>

\* l.200: os.remove(tar_name)
RemoveTar(c) ==
    /\ proc[c].pc = "rmtar"
    /\ LET t == proc[c].t
       IN  IF host[TarName(t)] = Absent
           THEN proc' = Raise(c, "FileNotFoundError") /\ host' = host
           ELSE /\ proc' = [proc EXCEPT ![c].pc = "mv"]
                /\ host' = [host EXCEPT ![TarName(t)] = Absent]
    /\ UNCHANGED <<clock, cfs, flast, given, calls, lifeVars, portVars, mountVars, cliVars, auxVars>>

\* l.202-204: execute(f"mv /tmp/{tmp_file} {path}"), result dropped; return res
Mv(c) ==
    /\ proc[c].pc = "mv"
    /\ LET t == proc[c].t
           dst == proc[c].path
       IN  /\ proc' = [proc EXCEPT ![c].pc = "done",
                                   ![c].mv = MvRc(cfs, Staged(t), dst)]
           /\ cfs' = MvFs(cfs, Staged(t), TmpName(t), dst)
           /\ given' = [given EXCEPT ![dst] = proc[c].content]
    /\ UNCHANGED <<clock, host, flast, calls, lifeVars, portVars, mountVars, cliVars, auxVars>>

\* a second goes by on the host
Tick ==
    /\ clock < MaxClock
    /\ clock' = clock + 1
    /\ UNCHANGED <<host, cfs, proc, flast, given, calls, lifeVars, portVars, mountVars, cliVars, auxVars>>

Query(a) ==
    /\ \A c \in Callers : Resting(c)
    /\ flast' = a
    /\ UNCHANGED <<clock, host, cfs, proc, given, calls, lifeVars, portVars, mountVars, cliVars, auxVars>>

\* read_file / view_directory: the output of cat / ls -la, whatever the exit code
ReadPath(p) == Query(Answer("read_file", p, Cat(cfs, p).rc, Cat(cfs, p).out))
ViewPath(p) == Query(Answer("view_directory", p, Ls(cfs, p).rc, Ls(cfs, p).out))
\* exists / is_directory: returncode == 0 of test -e / test -d
ExistsPath(p) == Query(Answer("exists", p, TestE(cfs, p), PyBool(TestE(cfs, p) = 0)))
IsDirectoryPath(p) ==
    Query(Answer("is_directory", p, TestD(cfs, p), PyBool(TestD(cfs, p) = 0)))

FileInit ==
    /\ LifeInit
    /\ PortIdle
    /\ MountIdle
    /\ CliIdle
    /\ AuxIdle
    /\ clock = 0
    /\ host = [n \in {TmpName(t) : t \in Times} \cup {TarName(t) : t \in Times} |-> Absent]
    /\ cfs = [p \in FsPaths |-> IF p \in ImageDirs THEN Dir ELSE Absent]
    /\ proc = [c \in Callers |-> IdleProc]
    /\ flast = NoAnswer
    /\ given = [p \in FsPaths |-> Absent]
    /\ calls = 0

\* one caller at a time: calls, faults of the archive legs, queries in between
SeqNext ==
    \/ \E p \in WriteTargets, x \in Contents : Call(1, p, x)
    \/ \E ok \in BOOLEAN : CreateTar(1, ok)
    \/ RemoveTmp(1)
    \/ \E o \in {"ok", "false", "raise"} : PutArchive(1, o)
    \/ RemoveTar(1)
    \/ Mv(1)
    \/ Tick
    \/ \E p \in QueryPaths : ReadPath(p)
    \/ \E p \in QueryPaths : ViewPath(p)
    \/ \E p \in QueryPaths : ExistsPath(p)
    \/ \E p \in QueryPaths : IsDirectoryPath(p)

SeqSpec == FileInit /\ [][SeqNext]_vars

\* several callers sharing the host working directory and the sandbox, each
\* writing its own path, with no fault injected
ConcNext ==
    \/ \E c \in Callers, x \in Contents : Call(c, OwnPath(c), x)
    \/ \E c \in Callers : CreateTar(c, TRUE)
    \/ \E c \in Callers : RemoveTmp(c)
    \/ \E c \in Callers : PutArchive(c, "ok")
    \/ \E c \in Callers : RemoveTar(c)
    \/ \E c \in Callers : Mv(c)
    \/ Tick

ConcSpec == FileInit /\ [][ConcNext]_vars

\* --------------------------------------------- download_container_files.py
\* the output directory: whether it is there and whether it holds entries
DirState(present, files) == [present |-> present, files |-> files]
NoDir == DirState(FALSE, FALSE)
DirStates == {NoDir, DirState(TRUE, FALSE), DirState(TRUE, TRUE)}

\* what client.containers.get, get_archive and put_archive can do; "other" is
\* an exception that is not a docker.errors.APIError (daemon unreachable, ...)
Lookups == {"ok", "NotFound", "APIError", "other"}
Fetches == {"ok", "NotFound", "APIError", "other"}
Extracts == {"ok", "fail"}
Puts == {"true", "false", "APIError", "other"}

\* os.makedirs(output_dir, exist_ok=True)
Makedirs(d) == DirState(TRUE, d.files)
\* os.rmdir(output_dir): removes an empty directory, raises OSError otherwise
RmdirRaises(d) == d.files
Rmdir(d) == IF RmdirRaises(d) THEN d ELSE NoDir

DownloadResult(d, ret, branch) == [disk |-> d, ret |-> ret, branch |-> branch]

download_from_container(d, lookup, fetch, extract) ==
    IF lookup = "NotFound" THEN DownloadResult(d, "None", "container_not_found")
    ELSE IF lookup = "APIError" THEN DownloadResult(d, "None", "container_error")
    ELSE IF lookup = "other" THEN DownloadResult(d, "None", "unexpected")
    ELSE LET d1 == Makedirs(d)
         IN  IF fetch \in {"NotFound", "APIError"}
             THEN IF RmdirRaises(d1) THEN DownloadResult(d1, "None", "unexpected")
                  ELSE DownloadResult(Rmdir(d1), "None",
                                      IF fetch = "NotFound" THEN "path_not_found"
                                      ELSE "fetch_error")
             ELSE IF fetch = "other" \/ extract = "fail"
             THEN DownloadResult(d1, "None", "unexpected")
             ELSE DownloadResult(DirState(TRUE, TRUE), "output_dir", "downloaded")

\* local paths are sequences of characters; "/" separates the components
Slashes(s) == {i \in 1..Len(s) : s[i] = "/"}
LastSlash(s) == IF Slashes(s) = {} THEN 0
                ELSE CHOOSE i \in Slashes(s) : \A j \in Slashes(s) : j <= i
\* os.path.basename: what follows the last separator
Basename(s) == SubSeq(s, LastSlash(s) + 1, Len(s))

\* the local tree the uploader is pointed at: the file f, the directory d
\* holding x, and the directory a holding d
PathF == <<"f">>
PathD == <<"d">>
PathDSep == <<"d", "/">>
PathAD == <<"a", "/", "d">>
PathADSep == <<"a", "/", "d", "/">>
PathFSep == <<"f", "/">>
PathM == <<"m">>
LocalPaths == {PathF, PathD, PathDSep, PathAD, PathADSep, PathFSep, PathM}
LocalKind(p) ==
    IF p = PathF THEN "file"
    ELSE IF p \in {PathD, PathDSep, PathAD, PathADSep} THEN "dir"
    ELSE "missing"
Children(p) == {<<"x">>}

\* the names at the root of the archive tar.add(local_path, arcname=arcname)
\* writes: arcname itself, and for a directory added under the empty name its
\* entries as well
RootEntries(p) ==
    LET arcname == Basename(p)
    IN  IF LocalKind(p) = "dir" /\ arcname = <<>> THEN {arcname} \cup Children(p)
        ELSE {arcname}

UploadResult(ret, branch, puts, roots) ==
    [ret |-> ret, branch |-> branch, puts |-> puts, roots |-> roots]

upload_to_container(lookup, p, tarfault, put) ==
    IF lookup = "NotFound" THEN UploadResult("False", "container_not_found", 0, {})
    ELSE IF lookup = "APIError" THEN UploadResult("False", "container_error", 0, {})
    ELSE IF lookup = "other" THEN UploadResult("False", "unexpected", 0, {})
    ELSE IF LocalKind(p) = "missing" THEN UploadResult("False", "no_local_path", 0, {})
    ELSE IF tarfault THEN UploadResult("False", "unexpected", 0, {})
    ELSE IF put = "true" THEN UploadResult("True", "uploaded", 1, RootEntries(p))
    ELSE IF put = "false" THEN UploadResult("False", "upload_failed", 1, RootEntries(p))
    ELSE IF put = "APIError" THEN UploadResult("False", "upload_error", 1, RootEntries(p))
    ELSE UploadResult("False", "unexpected", 1, RootEntries(p))

\* list_containers: prints the running containers, or the error; returns None
Listings == {"some", "none", "error"}
list_containers(listing) ==
    CASE listing = "some" -> "listed"
      [] listing = "none" -> "no_containers"
      [] listing = "error" -> "error"

CliResult(op, in, before, ret, branch, puts, roots, exit) ==
    [op |-> op, in |-> in, before |-> before, ret |-> ret, branch |-> branch,
     puts |-> puts, roots |-> roots, exit |-> exit]
NoCli == CliResult("init", <<>>, NoDir, "", "", 0, {}, 0)

Download(lookup, fetch, extract) ==
    LET r == download_from_container(disk, lookup, fetch, extract)
    IN  /\ disk' = r.disk
        /\ cli' = CliResult("download",
                            [lookup |-> lookup, fetch |-> fetch, extract |-> extract],
                            disk, r.ret, r.branch, 0, {}, 0)
        /\ UNCHANGED <<lifeVars, portVars, mountVars, fileVars, auxVars>>

Upload(lookup, p, tarfault, put) ==
    LET r == upload_to_container(lookup, p, tarfault, put)
    IN  /\ cli' = CliResult("upload",
                            [lookup |-> lookup, path |-> p, tarfault |-> tarfault, put |-> put],
                            disk, r.ret, r.branch, r.puts, r.roots, 0)
        /\ UNCHANGED <<disk, lifeVars, portVars, mountVars, fileVars, auxVars>>

\* main: args as argparse leaves them (an argument not given is empty), f the
\* behaviour of the daemon and of the local file system during the call
Args ==
    [list : BOOLEAN, action : {"", "download", "upload"}, container_id : {"", "c1"},
     source_path : {<<>>, PathF}, dest_path : {"", "/dst"}]
Faults ==
    [lookup : {"ok", "NotFound"}, fetch : {"ok"}, extract : {"ok"},
     tarfault : {FALSE}, put : {"true", "false"}, listing : {"some", "error"}]

ExitOfList(listing) == 0
ExitOf(result) == IF result \in {"None", "False"} THEN 1 ELSE 0

main(d, a, f) ==
    IF a.list
    THEN [disk |-> d, exit |-> ExitOfList(f.listing), branch |-> list_containers(f.listing)]
    ELSE IF a.action = ""
    THEN [disk |-> d, exit |-> 1, branch |-> "no_action"]
    ELSE IF a.action = "download"
    THEN IF a.container_id = "" \/ a.source_path = <<>>
         THEN [disk |-> d, exit |-> 1, branch |-> "missing_arguments"]
         ELSE LET r == download_from_container(d, f.lookup, f.fetch, f.extract)
              IN  [disk |-> r.disk, exit |-> ExitOf(r.ret), branch |-> r.branch]
    ELSE IF a.container_id = "" \/ a.source_path = <<>> \/ a.dest_path = ""
         THEN [disk |-> d, exit |-> 1, branch |-> "missing_arguments"]
         ELSE LET r == upload_to_container(f.lookup, a.source_path, f.tarfault, f.put)
              IN  [disk |-> d, exit |-> ExitOf(r.ret), branch |-> r.branch]

Main(a, f) ==
    LET r == main(disk, a, f)
    IN  /\ disk' = r.disk
        /\ cli' = CliResult("main", [args |-> a, faults |-> f], disk, "", r.branch, 0, {}, r.exit)
        /\ UNCHANGED <<lifeVars, portVars, mountVars, fileVars, auxVars>>

CliInit ==
    /\ LifeInit
    /\ PortIdle
    /\ MountIdle
    /\ FileIdle
    /\ AuxIdle
    /\ disk \in DirStates
    /\ cli = NoCli

CliNext ==
    \/ \E l \in Lookups, g \in Fetches, x \in Extracts : Download(l, g, x)
    \/ \E l \in Lookups, p \in LocalPaths, t \in BOOLEAN, u \in Puts : Upload(l, p, t, u)
    \/ \E a \in Args, f \in Faults : Main(a, f)

CliSpec == CliInit /\ [][CliNext]_vars

\* ------------------------------------------- download_files: the archive stream
MaxChunks == 2
\* length=12, the default of get_container_ID
IdPrefixLen == 12

\* the chunks the daemon's archive response is delivered in
Chunks == {"k1", "k2"}
Archives == UNION {[1..n -> Chunks] : n \in 1..MaxChunks}

\* container ids as the daemon hands them out: longer than the prefix used
FullIds == {<<"a", "1", "b", "2", "c", "3", "d", "4", "e", "5", "f", "6", "0", "7">>,
            <<"9", "9", "9", "8", "8", "8", "7", "7", "7", "6", "6", "6", "5", "5">>}

\* get_container_ID(length=12): self.container_id[:length]
get_container_ID(id) == SubSeq(id, 1, IF Len(id) < IdPrefixLen THEN Len(id) ELSE IdPrefixLen)

\* the stripped output of "pwd", as characters
Pwds == {<<"/">>, <<"/", "w">>, <<"/", "w", "/", "p">>}

\* pwd.replace("/", "::")
RECURSIVE ReplaceSlash(_)
ReplaceSlash(p) ==
    IF p = <<>> THEN <<>>
    ELSE (IF Head(p) = "/" THEN <<":", ":">> ELSE <<Head(p)>>) \o ReplaceSlash(Tail(p))

\* f"{save_folder}/{ID}_{pwd.replace("/", "::")}.tar"
SavedName(save_folder, id, pwd) ==
    <<save_folder, "/">> \o get_container_ID(id) \o <<"_">> \o ReplaceSlash(pwd) \o <<".tar">>

SaveFolders == {"None", "out"}
\* what can go wrong: the exec of pwd, get_archive, opening the local file
StreamFaults == {"none", "exec", "archive", "open"}

StreamCall(id, pwd, save_folder, archive, fault) ==
    [id |-> id, pwd |-> pwd, save_folder |-> save_folder, archive |-> archive,
     fault |-> fault]

\* the outcome of download_files: the path asked of get_archive, what is left
\* to read on the returned stream, the stat, the local files written
StreamResult(call, exc, asked, stream, stat, files) ==
    [phase |-> "returned", call |-> call, exc |-> exc, asked |-> asked,
     stream |-> stream, got |-> <<>>, stat |-> stat, files |-> files]

\* the for loop over bits runs the generator to its end before the return
StreamAfterSave(archive) == <<>>

download_files(call) ==
    IF call.fault = "exec"
    THEN StreamResult(call, "APIError", <<>>, <<>>, "", {})
    ELSE IF call.fault = "archive"
    THEN StreamResult(call, "NotFound", call.pwd, <<>>, "", {})
    ELSE IF call.save_folder = "None"
    THEN StreamResult(call, "", call.pwd, call.archive, "stat", {})
    ELSE IF call.fault = "open"
    THEN StreamResult(call, "FileNotFoundError", call.pwd, <<>>, "", {})
    ELSE StreamResult(call, "", call.pwd, StreamAfterSave(call.archive), "stat",
                      {[name |-> SavedName(call.save_folder, call.id, call.pwd),
                        data |-> call.archive]})

\* the call of download_files
StreamDownload ==
    /\ dl.phase = "called"
    /\ dl' = download_files(dl.call)
    /\ UNCHANGED <<lifeVars, portVars, mountVars, fileVars, cliVars, inflight>>

\* the caller takes the next chunk from the stream it was handed
StreamRead ==
    /\ dl.phase = "returned"
    /\ dl.exc = ""
    /\ dl.stream # <<>>
    /\ dl' = [dl EXCEPT !.stream = Tail(@), !.got = Append(@, Head(dl.stream))]
    /\ UNCHANGED <<lifeVars, portVars, mountVars, fileVars, cliVars, inflight>>

StreamInit ==
    /\ LifeInit
    /\ PortIdle
    /\ MountIdle
    /\ FileIdle
    /\ CliIdle
    /\ FlightIdle
    /\ \E id \in FullIds, pwd \in Pwds, sf \in SaveFolders, ar \in Archives,
          fault \in StreamFaults :
          dl = [phase |-> "called", call |-> StreamCall(id, pwd, sf, ar, fault)]

StreamNext ==
    \/ StreamDownload
    \/ StreamRead

StreamSpec == StreamInit /\ [][StreamNext]_vars

\* -------------------------------------------------------------- behaviours

Init == LifeInit /\ PortIdle /\ MountIdle /\ FileIdle /\ CliIdle /\ AuxIdle

Next ==
    \/ \E f \in {"none", "from_env", "run", "reload"} : Spawn(f)
    \/ \E i \in Ids, f \in {"none", "from_env", "get", "reload", "reload2"} : Attach(i, f)
    \/ \E h \in Handles, up \in BOOLEAN : Cleanup(h, up)
    \/ \E h \in Handles, up \in BOOLEAN : Discard(h, up)
    \/ \E h \in Handles, r \in Runs : Execute(h, r)
    \/ \E h \in Handles, r \in {"down", "rc0"} : ReadFile(h, r)
    \/ \E h \in Handles, r \in {"down", "rc0"} : ViewDirectory(h, r)
    \/ \E h \in Handles, r \in Runs : Exists(h, r)
    \/ \E h \in Handles, r \in Runs : IsDirectory(h, r)
    \/ \E h \in Handles, up \in BOOLEAN : CopyFileToContainer(h, up)
    \/ \E h \in Handles, f \in {"none", "exec", "archive"} : DownloadFiles(h, f)
    \/ \E h \in Handles, f \in {"none", "exec", "archive"} : WriteFile(h, f)
    \/ \E i \in Ids : DashStop(i)
    \/ \E i \in Ids : DashStart(i)
    \/ \E i \in Ids : DashRemove(i)

Spec == Init /\ [][Next]_vars

\* the lifecycle alone: construction, release, discard, one command, dashboard
LifeNext ==
    \/ \E f \in {"none", "from_env", "run", "reload"} : Spawn(f)
    \/ \E i \in Ids, f \in {"none", "from_env", "get", "reload", "reload2"} : Attach(i, f)
    \/ \E h \in Handles, up \in BOOLEAN : Cleanup(h, up)
    \/ \E h \in Handles, up \in BOOLEAN : Discard(h, up)
    \/ \E h \in Handles, r \in Runs : Execute(h, r)
    \/ \E h \in Handles, up \in BOOLEAN : CopyFileToContainer(h, up)
    \/ \E i \in Ids : DashStop(i)
    \/ \E i \in Ids : DashStart(i)
    \/ \E i \in Ids : DashRemove(i)

LifeSpec == Init /\ [][LifeNext]_vars

\* the operations of the environments alone, nothing done out of band
OpsNext ==
    \/ \E f \in {"none", "from_env", "run", "reload"} : Spawn(f)
    \/ \E i \in Ids, f \in {"none", "from_env", "get", "reload", "reload2"} : Attach(i, f)
    \/ \E h \in Handles, up \in BOOLEAN : Cleanup(h, up)
    \/ \E h \in Handles, up \in BOOLEAN : Discard(h, up)
    \/ \E h \in Handles, r \in Runs : Execute(h, r)
    \/ \E h \in Handles, r \in {"down", "rc0"} : ReadFile(h, r)
    \/ \E h \in Handles, r \in Runs : Exists(h, r)
    \/ \E h \in Handles, r \in Runs : IsDirectory(h, r)
    \/ \E h \in Handles, up \in BOOLEAN : CopyFileToContainer(h, up)
    \/ \E h \in Handles, f \in {"none", "exec", "archive"} : DownloadFiles(h, f)
    \/ \E h \in Handles, f \in {"none", "exec", "archive"} : WriteFile(h, f)

OpsSpec == Init /\ [][OpsNext]_vars

\* ------------------------------------------- an exec_run that is under way
\* exec_run is one blocking round trip: _execute has sent it and waits
ExecBegin(h) ==
    /\ env[h].st = "held"
    /\ ~inflight[h]
    /\ ExecOutcome(env[h].container, TRUE) = ""
    /\ issued' = <<Req("exec", env[h].container, h, 0)>>
    /\ inflight' = [inflight EXCEPT ![h] = TRUE]
    /\ UNCHANGED <<status, nextId, env, nextHandle, released, stopCount, last,
                   portVars, mountVars, fileVars, cliVars, dl>>

\* what the waiting exec_run ends with once its container has been stopped:
\* the runtime ends the process and the severed connection surfaces as an error
SeveredOutcomes == {"ConnectionError"}

\* the ways a waiting exec_run can end
FlightEnds(id) == IF status[id] = "running" THEN {"rc0", "rc1"} ELSE SeveredOutcomes

\* exec_run returns or raises; _execute builds the dict from a return and
\* has no handler for an exception
ExecEnd(h, res) ==
    /\ inflight[h]
    /\ res \in FlightEnds(env[h].container)
    /\ last' = Result("execute", h, env[h].container,
                      IF res \in SeveredOutcomes THEN "" ELSE RcText(res),
                      IF res \in SeveredOutcomes THEN res ELSE "", "")
    /\ inflight' = [inflight EXCEPT ![h] = FALSE]
    /\ UNCHANGED <<status, nextId, env, nextHandle, released, stopCount, issued,
                   portVars, mountVars, fileVars, cliVars, dl>>

\* an object on which a method is running is referenced, hence not collected
FlightDiscard(h, up) == ~inflight[h] /\ Discard(h, up)

FlightNext ==
    \/ Spawn("none")
    \/ \E i \in Ids : Attach(i, "none")
    \/ \E h \in Handles : ExecBegin(h)
    \/ \E h \in Handles, res \in {"rc0", "rc1"} \cup SeveredOutcomes : ExecEnd(h, res)
    \/ \E h \in Handles, up \in BOOLEAN : Cleanup(h, up)
    \/ \E h \in Handles, up \in BOOLEAN : FlightDiscard(h, up)

\* an exec_run whose container has stopped does not wait for ever
FlightFair ==
    \A h \in Handles :
        WF_vars(\E res \in SeveredOutcomes : ExecEnd(h, res))

FlightSpec == Init /\ [][FlightNext]_vars /\ FlightFair


\* ------------------------------------------------------------------ claims
Owning(h) == env[h].st # "unused" /\ env[h].owner
Attached(h) == env[h].st # "unused" /\ ~env[h].owner
RuntimeChanging == {"stop", "start", "run"}

\* C1: the runtime receives at most one stop request from an owning
\* environment, however often cleanup() and __del__ run on it.
C1_AtMostOneStop == \A h \in Handles : Owning(h) => stopCount[h] <= 1

\* C2: an attached environment never sends a stop, start or create request:
\* its stop count stays 0, no operation on it issues such a request, and its
\* cleanup() and __del__ send nothing and leave every container's status as it was.
C2_AttachedNeverStops ==
    [][\A h \in Handles :
         (env'[h].st # "unused" /\ ~env'[h].owner) =>
            /\ stopCount'[h] = 0
            /\ last'.h = h =>
                 \A i \in 1..Len(issued') : issued'[i].op \notin RuntimeChanging
            /\ (last'.h = h /\ last'.op \in {"cleanup", "del"}) =>
                 (issued' = <<>> /\ status' = status)]_vars

C2_Witness ==
    \E h \in Handles :
        /\ Attached(h) /\ env[h].st = "discarded" /\ released[h]
        /\ last.op = "del" /\ last.h = h
        /\ status[env[h].container] = "running"

\* C3: each identity has at most one owning handle; a spawn binds its object
\* to the identity just created, which no other object refers to yet; attach
\* yields a non-owning handle; every stop sent by an environment comes from
\* the owner of the container it names.
C3_SingleOwner ==
    /\ \A h1, h2 \in Handles :
         (Owning(h1) /\ Owning(h2) /\ env[h1].container # 0
            /\ env[h1].container = env[h2].container) => h1 = h2
    /\ (last.op = "spawn" /\ last.id # 0) =>
         /\ env[last.h].container = last.id /\ env[last.h].container_id = last.id
         /\ \A h \in Handles \ {last.h} : env[h].container # last.id
    /\ (last.op = "attach" /\ last.ret = "env") =>
         (~env[last.h].owner /\ env[last.h].container = last.id)
    /\ \A h \in Handles : stopCount[h] > 0 => (env[h].owner /\ env[h].container # 0)
    /\ \A i \in 1..Len(issued) :
         (issued[i].op = "stop" /\ issued[i].by # 0) =>
            (env[issued[i].by].owner /\ env[issued[i].by].container = issued[i].id)

C3_Witness ==
    \E h1, h2 \in Handles :
        /\ Owning(h1) /\ env[h1].st = "held"
        /\ Attached(h2) /\ env[h2].st = "held"
        /\ env[h1].container = env[h2].container
        /\ last.op = "cleanup" /\ last.h = h1 /\ stopCount[h1] > 0

\* C4: attaching to a container whose re-read status is not "running" fails
\* with NotRunningError, yields no handle and sends no create or start request.
C4_NotRunningError ==
    (last.op = "attach" /\ status[last.id] = "exited" /\ last.msg = "not_running") =>
        /\ last.exc = "NotRunningError"
        /\ last.h = 0
        /\ \A i \in 1..Len(issued) : issued[i].op \notin {"run", "start"}

\* C5: what the caller of attach receives differs between an absent identity,
\* a container that is not running and a daemon failure.
C5_DistinctFailures ==
    [][(/\ last.op = "attach" /\ last'.op = "attach"
        /\ last.msg # "connected" /\ last'.msg # "connected"
        /\ last.msg # last'.msg)
       => <<last.ret, last.exc>> # <<last'.ret, last'.exc>>]_vars

\* C6: once cleanup() has been called on an environment, every later
\* operation on it fails with ExecutionError.
C6_ReleasedIsTerminal ==
    (last.op \in EnvOps /\ released[last.h]) => last.exc = "ExecutionError"

\* C7: after a spawn and a release that returned, list(all=True) no longer
\* shows the container.
C7_ReleasedNotListed ==
    (last.op = "cleanup" /\ Owning(last.h) /\ last.exc = "") => last.id \notin ListAll

\* C8: cleanup() on an owning environment returns normally even when the stop
\* request fails.
C8_ReleaseSwallowsStopErrors ==
    (last.op = "cleanup" /\ Owning(last.h)) => (last.exc = "" /\ last.ret = "ok")

\* C9: when an owning environment is discarded, a stop with the 10 second
\* timeout has been sent for the container its spawn created (also when reload
\* raised after the container was created); the release of an environment
\* whose spawn created no container sends no stop and does not fail.
C9_DiscardReleases ==
    \A h \in Handles :
        (Owning(h) /\ env[h].st = "discarded") =>
            /\ env[h].container # 0 => stopCount[h] >= 1
            /\ (last.op = "del" /\ last.h = h) =>
                 IF env[h].container # 0
                 THEN issued = <<Req("stop", env[h].container, h, 10)>>
                 ELSE issued = <<>> /\ last.msg = ""

\* the resolved host specs of the requests for container port k, in order
RECURSIVE SpecsFor(_, _, _)
SpecsFor(lst, k, i) ==
    IF i > Len(lst) THEN <<>>
    ELSE (IF lst[i].docker = k THEN <<Resolve(lst[i].local)>> ELSE <<>>)
         \o SpecsFor(lst, k, i + 1)

ValueAt(d, k) == d[CHOOSE i \in 1..Len(d) : d[i].k = k].v

PortsAccumulate ==
    dic.exc = "" =>
        /\ \A i, j \in 1..Len(dic.dic) : dic.dic[i].k = dic.dic[j].k => i = j
        /\ \A k \in DockerPorts :
             LET xs == SpecsFor(port_lst, k, 1)
                 present == \E i \in 1..Len(dic.dic) : dic.dic[i].k = k
             IN  /\ present <=> Len(xs) > 0
                 /\ Len(xs) = 1 => ValueAt(dic.dic, k) = xs[1]
                 /\ Len(xs) >= 2 => ValueAt(dic.dic, k) = PyList(xs)

Example80 == <<[docker |-> PyStr(S80), local |-> PyStr(S8080)],
               [docker |-> PyStr(S80), local |-> PyStr(S8081)]>>
Example443 == <<[docker |-> PyStr(S443), local |-> PyNone]>>
Mapping(entries) == [exc |-> "", dic |-> entries]

\* C10 (as stated): a port requested once maps to the bare resolved spec, one
\* requested n >= 2 times to the list of the n resolved specs in request order;
\* the two examples give {80: [8080, 8081]} and {443: None}, keyed by number.
C10_AsStated ==
    pdone =>
        /\ PortsAccumulate
        /\ port_lst = Example80 =>
             dic = Mapping(<<[k |-> PyInt(80), v |-> PyList(<<PyInt(8080), PyInt(8081)>>)]>>)
        /\ port_lst = Example443 =>
             dic = Mapping(<<[k |-> PyInt(443), v |-> PyNone]>>)

\* C10 (amended): the same, with every key the container port exactly as the
\* request gave it: the examples give {"80": [8080, 8081]} and {"443": None}.
C10_PortMapping ==
    pdone =>
        /\ PortsAccumulate
        /\ port_lst = Example80 =>
             dic = Mapping(<<[k |-> PyStr(S80), v |-> PyList(<<PyInt(8080), PyInt(8081)>>)]>>)
        /\ port_lst = Example443 =>
             dic = Mapping(<<[k |-> PyStr(S443), v |-> PyNone]>>)

C10_Witness ==
    /\ pdone /\ dic.exc = ""
    /\ \E k \in DockerPorts :
         LET xs == SpecsFor(port_lst, k, 1)
         IN  /\ Len(xs) = 3 /\ xs[1] = PyNone /\ xs[3].ty = "tuple"
             /\ ValueAt(dic.dic, k) = PyList(xs)

\* a host spec that is neither "host:port" with a numeric port nor a bare
\* numeric port
Unparseable(u) ==
    \/ u.ty = "none"
    \/ /\ u.ty = "str"
       /\ IF HasColon(u.s) THEN ~IsNumeric(AfterColon(u.s)) ELSE ~IsNumeric(u.s)

HoldsNone(v) == v = PyNone \/ (v.ty = "list" /\ \E j \in 1..Len(v.items) : v.items[j] = PyNone)

\* C11: the translation never fails, and every request whose host spec is
\* absent or unparseable shows up as None under its container port.
C11_UnparseableIsNone ==
    pdone =>
        /\ dic.exc = ""
        /\ \A i \in 1..Len(port_lst) :
             Unparseable(port_lst[i].local) =>
                 /\ HasKey(dic.dic, port_lst[i].docker)
                 /\ HoldsNone(ValueAt(dic.dic, port_lst[i].docker))

\* C12: propagation is set only on bind mounts, no_copy and labels only on
\* volume mounts; a bind request whose bind_propagation is missing or "None"
\* gets no propagation override, never the text "None"; a request without a
\* type is a bind mount.
C12_KindSpecificFields ==
    (mdone /\ mres.exc = "") =>
        LET d == mres.d
        IN  /\ d.type # "bind" => d.propagation = PyNull
            /\ d.type # "volume" => (d.no_copy = "False" /\ d.labels = PyNull)
            /\ d.type = "bind" =>
                 d.propagation = (IF mount.bind_propagation \in {Missing, "None"}
                                  THEN PyNull ELSE mount.bind_propagation)
            /\ d.type = "volume" =>
                 /\ d.no_copy = Get(mount, "no_copy", "False")
                 /\ d.labels = Get(mount, "labels", PyNull)
            /\ d.propagation # "None"
            /\ d.type = (IF mount.type = Missing THEN "bind" ELSE mount.type)

C12_Witness ==
    /\ mdone
    /\ mres.exc = ""
    /\ mount.type = Missing
    /\ mount.bind_propagation = "None"
    /\ mres.d.type = "bind"
    /\ mres.d.propagation = PyNull

\* C13: a tmpfs request with a container_path translates whether or not it
\* has a local_path; a request without a container_path is rejected.
C13_SourceOptionalForTmpfs ==
    mdone =>
        /\ (mount.type = "tmpfs" /\ mount.container_path # Missing) => mres.exc = ""
        /\ mount.container_path = Missing => mres.exc # ""

\* C14: when a write_file call has returned or raised, neither its temporary
\* file nor its archive is left in the host working directory.
C14_NoLocalLeftovers ==
    \A c \in Callers :
        proc[c].pc \in {"done", "raised"} =>
            /\ host[TmpName(proc[c].t)] = Absent
            /\ host[TarName(proc[c].t)] = Absent

\* C15: two write_file calls under way at once never use the same temporary
\* name, none of them fails, and each destination holds the content its own
\* call was given.
C15_UniqueTempNames ==
    /\ \A c1, c2 \in Callers :
         (c1 # c2 /\ ~Resting(c1) /\ ~Resting(c2)) => proc[c1].t # proc[c2].t
    /\ \A c \in Callers :
         /\ proc[c].pc # "raised"
         /\ proc[c].pc = "done" => cfs[proc[c].path] = proc[c].content

\* C16: read_file(p) after a write_file(p, c) that returned, with no write to p
\* in between, returns exactly c.
C16_RoundTrip ==
    (flast.op = "read_file" /\ given[flast.path] # Absent) =>
        flast.ret = given[flast.path]

\* C17: write_file returns a returncode-0 result only if put_archive returned
\* true and the mv command exited with 0.
C17_FailureSurfaces ==
    \A c \in Callers :
        (proc[c].pc = "done" /\ proc[c].res.returncode = 0) =>
            (proc[c].put = "ok" /\ proc[c].mv = 0)

\* C18: read_file and view_directory fail with ReadError when cat / ls exits
\* non-zero; the error text is not handed back as content or listing.
C18_ReadErrors ==
    (flast.op \in {"read_file", "view_directory"} /\ flast.rc # 0) =>
        flast.exc = "ReadError"

\* C19: exists and is_directory never raise on a running environment, answer
\* by the exit code of test -e / test -d alone, answer false for a path that
\* is neither in the image nor was ever written, and after a write_file(p, c)
\* that returned exists(p) is true and is_directory(p) is false.
C19_ExistsAfterWrite ==
    flast.op \in {"exists", "is_directory"} =>
        /\ flast.exc = ""
        /\ flast.ret = PyBool(flast.rc = 0)
        /\ (given[flast.path] = Absent /\ flast.path \notin ImageDirs) => flast.ret = "false"
        /\ given[flast.path] # Absent => flast.ret = PyBool(flast.op = "exists")

\* C20: an execute or file operation on an environment whose container is not
\* running raises to the caller and leaves every container status as it was.
C20_NotRunningSurfaces ==
    [][(/\ last' # last
        /\ last'.op \in EnvOps
        /\ last'.id \in Ids
        /\ status[last'.id] # "running")
       => (last'.exc # "" /\ status' = status)]_vars

\* C21: a download leaves an output directory it created only when it
\* succeeded: a failed container lookup creates nothing, and after a failed
\* get_archive (NotFound or APIError) the call returns None and the output
\* directory does not exist.
C21_DirOnlyOnSuccess ==
    (cli.op = "download" /\ cli.ret = "None") =>
        /\ cli.in.lookup # "ok" => disk = cli.before
        /\ (cli.in.lookup = "ok" /\ cli.in.fetch \in {"NotFound", "APIError"}) => ~disk.present
        /\ ~cli.before.present => ~disk.present

\* whether the action main was asked for succeeded
Succeeded(a, f, d) ==
    IF a.list THEN f.listing # "error"
    ELSE IF a.action = "download"
    THEN /\ a.container_id # "" /\ a.source_path # <<>>
         /\ download_from_container(d, f.lookup, f.fetch, f.extract).ret # "None"
    ELSE IF a.action = "upload"
    THEN /\ a.container_id # "" /\ a.source_path # <<>> /\ a.dest_path # ""
         /\ upload_to_container(f.lookup, a.source_path, f.tarfault, f.put).ret = "True"
    ELSE FALSE

\* C22: main returns 0 exactly when the requested action succeeded, 1 otherwise.
C22_ExitCode ==
    cli.op = "main" =>
        cli.exit = (IF Succeeded(cli.in.args, cli.in.faults, cli.before) THEN 0 ELSE 1)

\* the last component of a local path: trailing separators set aside
LastComponent(p) ==
    LET n == CHOOSE k \in 0..Len(p) :
                 /\ \A j \in (k + 1)..Len(p) : p[j] = "/"
                 /\ k > 0 => p[k] # "/"
        t == SubSeq(p, 1, n)
    IN  SubSeq(t, LastSlash(t) + 1, Len(t))

\* C29: upload_to_container returns True exactly when a put_archive was issued
\* and returned true; a container not found, a missing local path or a failed
\* archive creation give False with no put_archive; the archive sent has the
\* single root entry named after the last component of the local path.
C29_UploadResult ==
    cli.op = "upload" =>
        /\ cli.ret = "True" <=> (cli.puts = 1 /\ cli.in.put = "true")
        /\ (cli.in.lookup # "ok" \/ LocalKind(cli.in.path) = "missing" \/ cli.in.tarfault) =>
             (cli.ret = "False" /\ cli.puts = 0)
        /\ cli.puts = 1 => cli.roots = {LastComponent(cli.in.path)}

\* C30: a download that fails at get_archive while the output directory was
\* already there leaves the directory and its contents as they were, and a
\* path that is not found is reported by the path-not-found branch.
C30_FailedDownloadFrame ==
    (/\ cli.op = "download"
     /\ cli.in.lookup = "ok"
     /\ cli.in.fetch \in {"NotFound", "APIError"}
     /\ cli.before.present) =>
        /\ cli.ret = "None"
        /\ disk = cli.before
        /\ cli.in.fetch = "NotFound" => cli.branch = "path_not_found"

\* how many requests of one kind the latest operation sent
Kinds == {"run", "get", "reload", "exec", "get_archive", "put_archive", "stop"}
Count(seq, kind) == Cardinality({i \in 1..Len(seq) : seq[i].op = kind})

\* C23 (as stated): an operation sends each kind of request at most once.
C23_AsStated == \A k \in Kinds : Count(issued, k) <= 1

\* C23: an operation sends each kind of request at most once, except that an
\* attach sends reload twice (before the status test and in the constructor);
\* a run, get or first reload that fails is the last request of its operation.
C23_NoRetry ==
    /\ \A k \in Kinds :
         Count(issued, k) <= (IF k = "reload" /\ last.op = "attach" THEN 2 ELSE 1)
    /\ (last.op = "spawn" /\ last.exc # "") =>
         (Len(issued) <= 2 /\ (Count(issued, "reload") = 1 => Count(issued, "run") = 1))
    /\ (last.op = "attach" /\ last.msg \in {"not_found", "not_running"}) =>
         Count(issued, "reload") <= 1
    /\ (last.op = "attach" /\ last.msg = "not_found") => issued = <<Req("get", last.id, 0, 0)>>

C23_Witness ==
    /\ last.op = "attach"
    /\ last.msg = "connected"
    /\ Count(issued, "get") = 1
    /\ Count(issued, "reload") = 2

\* the operations an environment offers once it exists
OwnOps == EnvOps \cup {"cleanup", "del"}

C26_SpawnOrder ==
    [][(last' # last /\ last'.op = "spawn") =>
         LET h == last'.h
             id == last'.id
             sent == issued'
         IN  /\ Len(sent) <= 2
             /\ Len(sent) >= 1 =>
                  /\ sent[1].op = "run" /\ sent[1].by = h
                  /\ sent[1].detach /\ sent[1].tty /\ sent[1].name = "uuid4"
             /\ Len(sent) = 2 =>
                  /\ sent[2] = Req("reload", id, h, 0)
                  /\ sent[1].id = id
                  /\ id # 0
                  /\ env'[h].container_id = id
             /\ last'.exc = "" =>
                  /\ Len(sent) = 2
                  /\ env[h].st = "unused"
                  /\ env'[h] = [st |-> "held", owner |-> TRUE,
                                container |-> id, container_id |-> id]
                  /\ last'.ret = "env"
                  /\ status[id] = "absent"
                  /\ status'[id] = "running"]_vars

C26_Witness ==
    /\ last.op = "spawn"
    /\ last.exc = ""
    /\ Len(issued) = 2
    /\ issued[2].op = "reload"
    /\ env[last.h].owner
    /\ status[last.id] = "running"

\* C28: connect_to_existing_container never raises; it returns None or an
\* attached environment bound to the container looked up, and only for a
\* container whose status was "running" when it was reloaded.
C28_AttachTotal ==
    [][(last' # last /\ last'.op = "attach") =>
         /\ last'.exc = ""
         /\ last'.ret \in {"env", "None"}
         /\ last'.ret = "env" =>
              /\ status[last'.id] = "running"
              /\ last'.h \in Handles
              /\ env[last'.h].st = "unused"
              /\ env'[last'.h] = [st |-> "held", owner |-> FALSE,
                                  container |-> last'.id, container_id |-> last'.id]
         /\ last'.ret = "None" => env' = env \/ (\E g \in Handles : env'[g].st = "garbage" /\ env[g].st = "unused")]_vars

C28_Witness ==
    /\ last.op = "attach"
    /\ last.ret = "env"
    /\ env[last.h].container = last.id
    /\ ~env[last.h].owner

\* C25: a download_files call that returns has asked for the archive of the
\* current directory and hands back the stat and a stream from which the whole
\* archive can still be read, persisted or not; without save_folder no local
\* file exists, with save_folder there is exactly one file, named
\* <12-character id prefix>_<slug of the path>.tar, holding every chunk in order.
C25_Download ==
    (dl # <<>> /\ dl.phase = "returned" /\ dl.exc = "") =>
        /\ dl.asked = dl.call.pwd
        /\ dl.stat = "stat"
        /\ dl.got \o dl.stream = dl.call.archive
        /\ dl.call.save_folder = "None" => dl.files = {}
        /\ dl.call.save_folder # "None" =>
              dl.files = {[name |-> SavedName(dl.call.save_folder, dl.call.id, dl.call.pwd),
                           data |-> dl.call.archive]}

\* C27: when an owning environment is released while an exec is in flight on
\* its sandbox, that release sends exactly one stop request; once the sandbox
\* has stopped, the in-flight exec ends, and the waiting execute call ends
\* with an error, never with a successful result and never waiting for ever.
InFlightOn(id) == {g \in Handles : inflight[g] /\ env[g].container = id}

====
